---- MODULE Spec2Model ----
(***************************************************************************)
(* A model of dashboard.py: the Streamlit script that loads the            *)
(* e-commerce transaction table, filters it by the sidebar date range and  *)
(* derives the monthly sales table (compute_monthly_sales) and the RFM     *)
(* table with its segment summary (compute_rfm).                           *)
(*                                                                         *)
(* Time is counted in ticks: a timestamp is day * TicksPerDay + tick of    *)
(* the day (tick 0 is midnight), a calendar month is DaysPerMonth days.    *)
(* Money is counted in whole units, so sums are exact.                     *)
(***************************************************************************)
EXTENDS Integers, Sequences, FiniteSets

VARIABLES
    df,               \* the loaded table: a sequence of transaction rows
    date_range,       \* the value of the sidebar date_input: <<d>> or <<start, end>>
    df_filtered,      \* df[mask_date]
    monthly_sales,    \* compute_monthly_sales(df_filtered)
    total_orders,     \* tab 1 KPI
    total_revenue,    \* tab 1 KPI
    rfm,              \* compute_rfm(df_filtered)[0]
    segment_summary,  \* compute_rfm(df_filtered)[1]
    rfm_error,        \* "none", or the exception compute_rfm raised
    stage             \* "rendered" after a script run; "scored"/"segmented" in SegmentSpec

vars == <<df, date_range, df_filtered, monthly_sales, total_orders,
          total_revenue, rfm, segment_summary, rfm_error, stage>>

----------------------------------------------------------------------------
(* Bounds of the model and the scale of the calendar *)

MaxRows == 3

MaxDay == 2

TicksPerDay == 2

DaysPerMonth == 2

\* the missing marker (NaN / NaT / None)
NaN == -99

----------------------------------------------------------------------------
(* Generic helpers on sets and sequences *)

Range(s) == {s[i] : i \in DOMAIN s}

Min(S) == CHOOSE x \in S : \A y \in S : x <= y

Max(S) == CHOOSE x \in S : \A y \in S : x >= y

RECURSIVE SumSeq(_)
SumSeq(s) == IF s = <<>> THEN 0 ELSE Head(s) + SumSeq(Tail(s))

RECURSIVE SetToSortedSeq(_)
SetToSortedSeq(S) ==
    IF S = {} THEN <<>>
    ELSE LET m == Min(S) IN <<m>> \o SetToSortedSeq(S \ {m})

\* numpy sort of a sequence of integers (ascending, duplicates kept)
RECURSIVE SortSeq(_)
SortSeq(s) ==
    IF s = <<>> THEN <<>>
    ELSE LET m == Min(Range(s))
             i == CHOOSE j \in DOMAIN s : s[j] = m
             rest == [k \in 1..(Len(s) - 1) |-> IF k < i THEN s[k] ELSE s[k + 1]]
         IN <<m>> \o SortSeq(rest)

IsNull(x) == x = NaN

----------------------------------------------------------------------------
(* Calendar *)

\* Timestamp.date()
DateOf(ts) == ts \div TicksPerDay

\* pd.to_datetime(date): midnight of that date
ToDatetime(d) == d * TicksPerDay

\* the month bin of pd.Grouper(freq="ME")
MonthOf(ts) == DateOf(ts) \div DaysPerMonth

----------------------------------------------------------------------------
(* Sidebar date filter *)

\* df["order_purchase_timestamp"].min() / .max() skip NaT
min_date(d) == Min({d[i].order_purchase_timestamp : i \in DOMAIN d})

max_date(d) == Max({d[i].order_purchase_timestamp : i \in DOMAIN d})

\* the (start, end) timestamps taken from the widget value
StartTs(d, dr) == IF Len(dr) = 2 THEN ToDatetime(dr[1]) ELSE min_date(d)

EndTs(d, dr) == IF Len(dr) = 2 THEN ToDatetime(dr[2]) ELSE max_date(d)

\* mask_date with start and end swapped
mask_date_swapped(start, end, r) ==
    /\ r.order_purchase_timestamp >= end
    /\ r.order_purchase_timestamp <= start

mask_date(start, end, r) ==
    /\ r.order_purchase_timestamp >= start
    /\ r.order_purchase_timestamp <= end

FilterByDate(d, dr) ==
    LET start == StartTs(d, dr)
        end == EndTs(d, dr)
        keep(r) == mask_date(start, end, r)
    IN SelectSeq(d, keep)

\* what st.date_input can hand back: one date while the user is still
\* picking, or a (start, end) pair inside [min_value, max_value]
WidgetValues(d) ==
    LET lo == DateOf(min_date(d))
        hi == DateOf(max_date(d))
    IN {<<a>> : a \in lo..hi}
       \cup {p \in (lo..hi) \X (lo..hi) : p[1] <= p[2]}

DefaultDateRange(d) == <<DateOf(min_date(d)), DateOf(max_date(d))>>

----------------------------------------------------------------------------
(* compute_monthly_sales *)

\* payment_value.sum() skips NaN
PaymentSum(rows) ==
    SumSeq([i \in DOMAIN rows |->
              IF IsNull(rows[i].payment_value) THEN 0 ELSE rows[i].payment_value])

\* groupby([order_id, Grouper(month)]).agg(total_payment = sum): one row per
\* observed (order_id, month) pair
OrderMonth(d) ==
    LET keys == {<<d[i].order_id, MonthOf(d[i].order_purchase_timestamp)>> : i \in DOMAIN d}
        rowsOf(k) ==
            LET inGroup(r) == r.order_id = k[1] /\ MonthOf(r.order_purchase_timestamp) = k[2]
            IN SelectSeq(d, inGroup)
    IN {[order_id |-> k[1], order_purchase_timestamp |-> k[2],
         total_payment |-> PaymentSum(rowsOf(k))] : k \in keys}

RECURSIVE SumTotalPayment(_)
SumTotalPayment(S) ==
    IF S = {} THEN 0
    ELSE LET x == CHOOSE y \in S : TRUE
         IN x.total_payment + SumTotalPayment(S \ {x})

\* groupby(month).agg(nunique, sum), sorted by month
compute_monthly_sales(d) ==
    LET om == OrderMonth(d)
        months == SetToSortedSeq({x.order_purchase_timestamp : x \in om})
    IN [i \in DOMAIN months |->
          LET ofMonth == {x \in om : x.order_purchase_timestamp = months[i]}
          IN [order_purchase_timestamp |-> months[i],
              total_orders |-> Cardinality({x.order_id : x \in ofMonth}),
              total_revenue |-> SumTotalPayment(ofMonth)]]

\* monthly_sales["total_orders"].sum()
KpiTotalOrders(ms) == SumSeq([i \in DOMAIN ms |-> ms[i].total_orders])

\* monthly_sales["total_revenue"].sum()
KpiTotalRevenue(ms) == SumSeq([i \in DOMAIN ms |-> ms[i].total_revenue])

----------------------------------------------------------------------------
(* pd.qcut(x, 4, labels=..., duplicates=...) *)

NoError == "none"

BinEdgesNotUnique == "ValueError: Bin edges must be unique"

LabelsMismatch == "ValueError: Bin labels must be one fewer than the number of bin edges"

NanToInt == "ValueError: Cannot convert float NaN to integer"

\* Series.quantile(k / 4) of the sorted values, with linear interpolation,
\* times 4 (so that the quarters stay integers)
Quantile4(sorted, k) ==
    LET n == Len(sorted)
        pos == (n - 1) * k
        lo == pos \div 4
        frac == pos % 4
        hi == IF lo + 1 <= n - 1 THEN lo + 1 ELSE lo
    IN 4 * sorted[lo + 1] + frac * (sorted[hi + 1] - sorted[lo + 1])

\* x.quantile(np.linspace(0, 1, 5)): the five bin edges, NaN for an empty series
QuantileBins(x) ==
    IF x = <<>> THEN [k \in 1..5 |-> NaN]
    ELSE LET sorted == SortSeq(x) IN [k \in 1..5 |-> Quantile4(sorted, k - 1)]

\* algos.unique: first occurrences, order kept
RECURSIVE Unique(_)
Unique(s) ==
    IF s = <<>> THEN <<>>
    ELSE LET init == Unique(SubSeq(s, 1, Len(s) - 1))
             last == s[Len(s)]
         IN IF last \in Range(init) THEN init ELSE Append(init, last)

\* bins.searchsorted(v, side="left"), then ids[x == bins[0]] = 1
BinId(bins, v) ==
    IF v = bins[1] THEN 1
    ELSE Cardinality({j \in DOMAIN bins : bins[j] < v})

\* _bins_to_cuts: the codes (labels) of x, or the error raised
BinsToCuts(x, bins0, labels, duplicates) ==
    LET uniq == Unique(bins0)
        collapsed == Len(uniq) < Len(bins0) /\ Len(bins0) # 2
        bins == IF collapsed THEN uniq ELSE bins0
        ids == [i \in DOMAIN x |-> BinId(bins, 4 * x[i])]
        na(i) == IsNull(x[i]) \/ ids[i] = Len(bins) \/ ids[i] = 0
    IN IF collapsed /\ duplicates = "raise"
         THEN [error |-> BinEdgesNotUnique, codes |-> <<>>]
       ELSE IF Len(labels) # Len(bins) - 1
         THEN [error |-> LabelsMismatch, codes |-> <<>>]
       ELSE [error |-> NoError,
             codes |-> [i \in DOMAIN x |-> IF na(i) THEN NaN ELSE labels[ids[i]]]]

QCut(x, labels, duplicates) == BinsToCuts(x, QuantileBins(x), labels, duplicates)

\* Series.rank(method="first"): ascending, ties in order of appearance
RankFirst(x) ==
    [i \in DOMAIN x |->
        Cardinality({j \in DOMAIN x : x[j] < x[i]})
        + Cardinality({j \in DOMAIN x : j <= i /\ x[j] = x[i]})]

\* .astype(int) of the categorical codes
AsTypeInt(cut) ==
    IF cut.error # NoError THEN cut
    ELSE IF \E i \in DOMAIN cut.codes : IsNull(cut.codes[i])
      THEN [error |-> NanToInt, codes |-> <<>>]
    ELSE cut

----------------------------------------------------------------------------
(* compute_rfm *)

\* df[[customer_unique_id, order_purchase_timestamp, payment_value]].dropna()
HasNoNull(r) ==
    /\ ~IsNull(r.customer_unique_id)
    /\ ~IsNull(r.order_purchase_timestamp)
    /\ ~IsNull(r.payment_value)

rfm_data(d) == SelectSeq(d, HasNoNull)

\* reference_date taken from the earliest purchase instead of the latest
reference_date_from_min(rd) ==
    IF rd = <<>> THEN NaN
    ELSE Min({rd[i].order_purchase_timestamp : i \in DOMAIN rd}) + TicksPerDay

\* rfm_data["order_purchase_timestamp"].max() + pd.Timedelta(days=1)
reference_date(rd) ==
    IF rd = <<>> THEN NaN
    ELSE Max({rd[i].order_purchase_timestamp : i \in DOMAIN rd}) + TicksPerDay

\* (reference_date - last_purchase).dt.days
RecencyDays(ref, last) == (ref - last) \div TicksPerDay

\* groupby("customer_unique_id").agg(max, count, sum).reset_index(), with the
\* recency column: one row per customer, in ascending customer order
RfmAggregate(rd) ==
    LET custs == SetToSortedSeq({rd[i].customer_unique_id : i \in DOMAIN rd})
        ref == reference_date(rd)
    IN [i \in DOMAIN custs |->
          LET mine(r) == r.customer_unique_id = custs[i]
              rows == SelectSeq(rd, mine)
              last == Max({rows[k].order_purchase_timestamp : k \in DOMAIN rows})
          IN [customer_unique_id |-> custs[i],
              last_purchase |-> last,
              frequency |-> Len(rows),
              monetary |-> PaymentSum(rows),
              recency |-> RecencyDays(ref, last)]]

\* the monetary filter letting zero spend through
NonNegativeMonetary(row) == row.monetary >= 0

\* rfm = rfm[rfm["monetary"] > 0]
PositiveMonetary(row) == row.monetary > 0

RfmBase(d) == SelectSeq(RfmAggregate(rfm_data(d)), PositiveMonetary)

Column(t, name) == [i \in DOMAIN t |-> t[i][name]]

\* R_score with the labels in the order of F_score and M_score
R_score_ascending(base) == AsTypeInt(QCut(Column(base, "recency"), <<1, 2, 3, 4>>, "raise"))

R_score(base) == AsTypeInt(QCut(Column(base, "recency"), <<4, 3, 2, 1>>, "raise"))

F_score(base) ==
    AsTypeInt(QCut(RankFirst(Column(base, "frequency")), <<1, 2, 3, 4>>, "drop"))

M_score(base) ==
    AsTypeInt(QCut(RankFirst(Column(base, "monetary")), <<1, 2, 3, 4>>, "drop"))

\* the table with the three score columns and RFM_score (the three digits)
Scored(base, R, F, M) ==
    [i \in DOMAIN base |->
        [customer_unique_id |-> base[i].customer_unique_id,
         last_purchase |-> base[i].last_purchase,
         frequency |-> base[i].frequency,
         monetary |-> base[i].monetary,
         recency |-> base[i].recency,
         R_score |-> R[i], F_score |-> F[i], M_score |-> M[i],
         RFM_score |-> <<R[i], F[i], M[i]>>]]

\* segment_rfm with strict comparisons in its first rule
segment_rfm_strict(row) ==
    IF row.R_score > 3 /\ row.F_score > 3 /\ row.M_score > 3 THEN "Loyal Customer"
    ELSE IF row.R_score >= 3 /\ row.F_score <= 2 THEN "New Customer"
    ELSE IF row.R_score <= 2 /\ row.F_score >= 3 THEN "Potential Loyalist"
    ELSE IF row.R_score <= 2 /\ row.F_score <= 2 THEN "At Risk"
    ELSE "Others"

segment_rfm(row) ==
    IF row.R_score >= 3 /\ row.F_score >= 3 /\ row.M_score >= 3 THEN "Loyal Customer"
    ELSE IF row.R_score >= 3 /\ row.F_score <= 2 THEN "New Customer"
    ELSE IF row.R_score <= 2 /\ row.F_score >= 3 THEN "Potential Loyalist"
    ELSE IF row.R_score <= 2 /\ row.F_score <= 2 THEN "At Risk"
    ELSE "Others"

\* rfm["Segment"] = rfm.apply(segment_rfm, axis=1)
WithSegment(t) ==
    [i \in DOMAIN t |->
        [customer_unique_id |-> t[i].customer_unique_id,
         last_purchase |-> t[i].last_purchase,
         frequency |-> t[i].frequency,
         monetary |-> t[i].monetary,
         recency |-> t[i].recency,
         R_score |-> t[i].R_score, F_score |-> t[i].F_score, M_score |-> t[i].M_score,
         RFM_score |-> t[i].RFM_score,
         Segment |-> segment_rfm(t[i])]]

\* the group keys of groupby("Segment"), in sorted order
SegmentOrder == <<"At Risk", "Loyal Customer", "New Customer", "Others", "Potential Loyalist">>

\* a summary row whose customers column adds up the frequency column
SummaryRow_sum_frequency(t, seg) ==
    LET inSeg(r) == r.Segment = seg
        rows == SelectSeq(t, inSeg)
        n == Len(rows)
    IN [Segment |-> seg,
        customers |-> SumSeq(Column(rows, "frequency")),
        avg_recency |-> <<SumSeq(Column(rows, "recency")), n>>,
        avg_frequency |-> <<SumSeq(Column(rows, "frequency")), n>>,
        avg_monetary |-> <<SumSeq(Column(rows, "monetary")), n>>]

\* one summary row: nunique customers and the three means (kept as sum / count)
SummaryRow(t, seg) ==
    LET inSeg(r) == r.Segment = seg
        rows == SelectSeq(t, inSeg)
        n == Len(rows)
    IN [Segment |-> seg,
        customers |-> Cardinality({rows[i].customer_unique_id : i \in DOMAIN rows}),
        avg_recency |-> <<SumSeq(Column(rows, "recency")), n>>,
        avg_frequency |-> <<SumSeq(Column(rows, "frequency")), n>>,
        avg_monetary |-> <<SumSeq(Column(rows, "monetary")), n>>]

\* sort_values("customers", ascending=False), ties left in group order
RECURSIVE SortByCustomersDesc(_)
SortByCustomersDesc(s) ==
    IF s = <<>> THEN <<>>
    ELSE LET top == Max({s[i].customers : i \in DOMAIN s})
             i == Min({j \in DOMAIN s : s[j].customers = top})
             rest == [k \in 1..(Len(s) - 1) |-> IF k < i THEN s[k] ELSE s[k + 1]]
         IN <<s[i]>> \o SortByCustomersDesc(rest)

\* rfm.groupby("Segment").agg(...).reset_index().sort_values(...)
SegmentSummary(t) ==
    LET present(seg) == \E i \in DOMAIN t : t[i].Segment = seg
        groups == SelectSeq(SegmentOrder, present)
    IN SortByCustomersDesc([i \in DOMAIN groups |-> SummaryRow(t, groups[i])])

Raised(err) == [error |-> err, rfm |-> <<>>, segment_summary |-> <<>>]

compute_rfm(d) ==
    LET base == RfmBase(d)
        R == R_score(base)
        F == F_score(base)
        M == M_score(base)
    IN IF R.error # NoError THEN Raised(R.error)
       ELSE IF F.error # NoError THEN Raised(F.error)
       ELSE IF M.error # NoError THEN Raised(M.error)
       ELSE LET t == WithSegment(Scored(base, R.codes, F.codes, M.codes))
            IN [error |-> NoError, rfm |-> t, segment_summary |-> SegmentSummary(t)]

----------------------------------------------------------------------------
(* The script: one run per widget change *)

\* everything the script computes for table d and widget value dr
RunScript(d, dr) ==
    LET f == FilterByDate(d, dr)
        ms == compute_monthly_sales(f)
        out == compute_rfm(f)
    IN /\ df_filtered' = f
       /\ monthly_sales' = ms
       /\ total_orders' = KpiTotalOrders(ms)
       /\ total_revenue' = KpiTotalRevenue(ms)
       /\ rfm' = out.rfm
       /\ segment_summary' = out.segment_summary
       /\ rfm_error' = out.error

\* the user picks a (start, end) pair in the sidebar
SelectDateRange(a, b) ==
    /\ stage = "rendered"
    /\ <<a, b>> \in WidgetValues(df)
    /\ <<a, b>> # date_range
    /\ date_range' = <<a, b>>
    /\ RunScript(df, <<a, b>>)
    /\ UNCHANGED <<df, stage>>

\* the user has picked only one date: the script falls back to (min, max)
SelectSingleDate(a) ==
    /\ stage = "rendered"
    /\ <<a>> \in WidgetValues(df)
    /\ <<a>> # date_range
    /\ date_range' = <<a>>
    /\ RunScript(df, <<a>>)
    /\ UNCHANGED <<df, stage>>

Next ==
    \/ \E a \in 0..MaxDay, b \in 0..MaxDay : SelectDateRange(a, b)
    \/ \E a \in 0..MaxDay : SelectSingleDate(a)

\* the state after load_data() returned table d and the script ran once
\* with the widget at its default value (min_date, max_date)
Loaded(d) ==
    LET dr == DefaultDateRange(d)
        f == FilterByDate(d, dr)
        ms == compute_monthly_sales(f)
        out == compute_rfm(f)
    IN /\ df = d
       /\ date_range = dr
       /\ df_filtered = f
       /\ monthly_sales = ms
       /\ total_orders = KpiTotalOrders(ms)
       /\ total_revenue = KpiTotalRevenue(ms)
       /\ rfm = out.rfm
       /\ segment_summary = out.segment_summary
       /\ rfm_error = out.error
       /\ stage = "rendered"

----------------------------------------------------------------------------
(* The tables the model is run on *)

\* the rows of a table are kept in one canonical order (the order of the rows
\* of the file changes none of the results): row indices never decrease
TableIndex(t) == \A i \in DOMAIN t \ {1} : t[i - 1] <= t[i]

NumTimestamps == (MaxDay + 1) * TicksPerDay

\* rows of the transaction file: every order belongs to one customer;
\* a payment may be a refund (negative)
ScriptPayments == <<-1, 0, 1>>

ScriptOrders == <<1, 2>>

ScriptRow(k) ==
    [order_id |-> ScriptOrders[(k \div (Len(ScriptPayments) * NumTimestamps)) + 1],
     customer_unique_id |-> ScriptOrders[(k \div (Len(ScriptPayments) * NumTimestamps)) + 1],
     order_purchase_timestamp |-> (k \div Len(ScriptPayments)) % NumTimestamps,
     payment_value |-> ScriptPayments[(k % Len(ScriptPayments)) + 1]]

NumScriptRows == Len(ScriptOrders) * NumTimestamps * Len(ScriptPayments)

\* rows handed to compute_rfm: several customers, missing customer ids and
\* missing payment values
RfmPayments == <<0, 1, NaN>>

RfmCustomers == <<1, 2, 3, NaN>>

RfmRow(k) ==
    [order_id |-> 1,
     customer_unique_id |-> RfmCustomers[(k \div (Len(RfmPayments) * NumTimestamps)) + 1],
     order_purchase_timestamp |-> (k \div Len(RfmPayments)) % NumTimestamps,
     payment_value |-> RfmPayments[(k % Len(RfmPayments)) + 1]]

NumRfmRows == Len(RfmCustomers) * NumTimestamps * Len(RfmPayments)

----------------------------------------------------------------------------
(* Spec: the script on a loaded table, rerun on every change of the date widget *)

Init ==
    \E n \in 1..MaxRows : \E t \in [1..n -> 0..(NumScriptRows - 1)] :
        /\ TableIndex(t)
        /\ Loaded([i \in DOMAIN t |-> ScriptRow(t[i])])

Spec == Init /\ [][Next]_vars

----------------------------------------------------------------------------
(* RfmSpec: compute_rfm applied to a filtered row set *)

RfmInit ==
    \E n \in 0..MaxRows : \E t \in [1..n -> 0..(NumRfmRows - 1)] :
        /\ TableIndex(t)
        /\ df = [i \in DOMAIN t |-> RfmRow(t[i])]
        /\ date_range = <<>>
        /\ df_filtered = df
        /\ monthly_sales = <<>>
        /\ total_orders = 0
        /\ total_revenue = 0
        /\ rfm = <<>>
        /\ segment_summary = <<>>
        /\ rfm_error = NoError
        /\ stage = "filtered"

\* rfm, segment_summary = compute_rfm(df_filtered)
ComputeRfm ==
    /\ stage = "filtered"
    /\ LET out == compute_rfm(df_filtered)
       IN /\ rfm' = out.rfm
          /\ segment_summary' = out.segment_summary
          /\ rfm_error' = out.error
    /\ stage' = "computed"
    /\ UNCHANGED <<df, date_range, df_filtered, monthly_sales, total_orders, total_revenue>>

RfmNext == ComputeRfm

RfmSpec == RfmInit /\ [][RfmNext]_vars

----------------------------------------------------------------------------
(* SegmentSpec: the segmentation step of compute_rfm applied to a scored table *)

MaxScored == 2

Scores == 1..4

\* a scored table of n customers, before the Segment column is added
ScoredTables(n) ==
    {[i \in 1..n |->
        [customer_unique_id |-> i, last_purchase |-> 0, frequency |-> 1,
         monetary |-> 1, recency |-> 1,
         R_score |-> sc[i][1], F_score |-> sc[i][2], M_score |-> sc[i][3],
         RFM_score |-> sc[i]]] : sc \in [1..n -> Scores \X Scores \X Scores]}

SegmentInit ==
    \E n \in 1..MaxScored : \E t \in ScoredTables(n) :
        /\ df = <<>>
        /\ date_range = <<>>
        /\ df_filtered = <<>>
        /\ monthly_sales = <<>>
        /\ total_orders = 0
        /\ total_revenue = 0
        /\ rfm = t
        /\ segment_summary = <<>>
        /\ rfm_error = NoError
        /\ stage = "scored"

\* rfm["Segment"] = rfm.apply(segment_rfm, axis=1), then the summary
AssignSegments ==
    /\ stage = "scored"
    /\ rfm' = WithSegment(rfm)
    /\ segment_summary' = SegmentSummary(WithSegment(rfm))
    /\ stage' = "segmented"
    /\ UNCHANGED <<df, date_range, df_filtered, monthly_sales, total_orders,
                   total_revenue, rfm_error>>

SegmentNext == AssignSegments

SegmentSpec == SegmentInit /\ [][SegmentNext]_vars

----------------------------------------------------------------------------
(* Properties *)

RECURSIVE SumOver(_, _)
\* the sum of f[x] over the finite set S
SumOver(f, S) ==
    IF S = {} THEN 0
    ELSE LET x == CHOOSE y \in S : TRUE IN f[x] + SumOver(f, S \ {x})

Returned == stage = "computed" /\ rfm_error = NoError

\* C1: the tab 1 KPI total_orders (the sum of total_orders over the month
\* rows) equals the number of distinct order_id values of the filtered rows.
C1_EachOrderCountedOnce ==
    total_orders = Cardinality({df_filtered[i].order_id : i \in DOMAIN df_filtered})

\* C2: the Segment of every row is the label of the first matching row of the
\* ordered rule table; the named triples get the named labels; and two rows
\* that differ only in M_score differ in Segment only when R >= 3 and F >= 3.
RuleTable ==
    <<[R |-> 3..4, F |-> 3..4, M |-> 3..4, label |-> "Loyal Customer"],
      [R |-> 3..4, F |-> 1..2, M |-> 1..4, label |-> "New Customer"],
      [R |-> 1..2, F |-> 3..4, M |-> 1..4, label |-> "Potential Loyalist"],
      [R |-> 1..2, F |-> 1..2, M |-> 1..4, label |-> "At Risk"]>>

RuleMatches(k, sc) ==
    sc[1] \in RuleTable[k].R /\ sc[2] \in RuleTable[k].F /\ sc[3] \in RuleTable[k].M

FirstMatchLabel(sc) ==
    IF \E k \in DOMAIN RuleTable : RuleMatches(k, sc)
    THEN RuleTable[Min({k \in DOMAIN RuleTable : RuleMatches(k, sc)})].label
    ELSE "Others"

NamedTriples ==
    {<<<<3, 3, 3>>, "Loyal Customer">>, <<<<4, 1, 1>>, "New Customer">>,
     <<<<3, 1, 4>>, "New Customer">>, <<<<1, 4, 1>>, "Potential Loyalist">>,
     <<<<2, 3, 1>>, "Potential Loyalist">>, <<<<1, 1, 1>>, "At Risk">>}

C2_SegmentIsFirstMatch ==
    stage = "segmented" =>
        /\ \A i \in DOMAIN rfm :
              /\ rfm[i].Segment = FirstMatchLabel(rfm[i].RFM_score)
              /\ \A nt \in NamedTriples :
                    rfm[i].RFM_score = nt[1] => rfm[i].Segment = nt[2]
        /\ \A i, j \in DOMAIN rfm :
              (/\ rfm[i].R_score = rfm[j].R_score
               /\ rfm[i].F_score = rfm[j].F_score
               /\ rfm[i].Segment # rfm[j].Segment)
              => (rfm[i].R_score >= 3 /\ rfm[i].F_score >= 3)

C2_Witness ==
    /\ stage = "segmented"
    /\ Len(rfm) = 2
    /\ rfm[1].RFM_score = <<3, 3, 3>> /\ rfm[1].Segment = "Loyal Customer"
    /\ rfm[2].RFM_score = <<3, 3, 1>> /\ rfm[2].Segment = "Others"

\* C3: on an empty filtered window compute_monthly_sales returns an empty
\* monthly table and compute_rfm returns an empty RFM table and an empty
\* segment summary, without raising.
C3_EmptyWindowGivesEmptyResults ==
    df_filtered = <<>> =>
        /\ monthly_sales = <<>>
        /\ rfm_error = NoError
        /\ rfm = <<>>
        /\ segment_summary = <<>>

\* C4: for a two-date selection (start, end) the filtered rows are exactly the
\* rows whose purchase date d satisfies start <= d <= end.
OnSelectedDates(r) ==
    /\ date_range[1] <= DateOf(r.order_purchase_timestamp)
    /\ DateOf(r.order_purchase_timestamp) <= date_range[2]

C4_DateRangeInclusive ==
    (stage = "rendered" /\ Len(date_range) = 2) => df_filtered = SelectSeq(df, OnSelectedDates)

\* C5: in the returned RFM table, frequency is the number of the customer's
\* filtered rows without a missing customer id, timestamp or payment value,
\* monetary is the sum of payment_value over these rows, and a customer is in
\* the table if and only if that sum is greater than 0.
QualifyingRows(c) ==
    {i \in DOMAIN df_filtered :
        /\ df_filtered[i].customer_unique_id = c
        /\ df_filtered[i].customer_unique_id # NaN
        /\ df_filtered[i].order_purchase_timestamp # NaN
        /\ df_filtered[i].payment_value # NaN}

Spend(c) == SumOver([i \in DOMAIN df_filtered |-> df_filtered[i].payment_value], QualifyingRows(c))

CustomersSeen == {df_filtered[i].customer_unique_id : i \in DOMAIN df_filtered} \ {NaN}

C5_FrequencyAndMonetary ==
    Returned =>
        /\ \A i \in DOMAIN rfm :
              /\ rfm[i].frequency = Cardinality(QualifyingRows(rfm[i].customer_unique_id))
              /\ rfm[i].monetary = Spend(rfm[i].customer_unique_id)
        /\ \A c \in CustomersSeen :
              (\E i \in DOMAIN rfm : rfm[i].customer_unique_id = c) <=> Spend(c) > 0

C5_Witness ==
    /\ Returned
    /\ \E c \in CustomersSeen :
          /\ QualifyingRows(c) # {}
          /\ \A i \in DOMAIN rfm : rfm[i].customer_unique_id # c

\* C6: when the customer population is too small for 4 distinct quantile
\* edges of the frequency and monetary ranks, the F_score and M_score steps
\* still complete (with fewer buckets) instead of raising.
TooFewForFourBuckets(x) == Len(Unique(QuantileBins(x))) < 5

C6_DegenerateCutsTolerated ==
    LET base == RfmBase(df_filtered)
    IN (/\ stage = "computed"
        /\ base # <<>>
        /\ TooFewForFourBuckets(RankFirst(Column(base, "frequency"))))
       => (F_score(base).error = NoError /\ M_score(base).error = NoError)

\* C7: with no negative payment in the table, the total revenue of every
\* date range strictly inside the selected date range is at most the total
\* revenue of the selected range.
StrictSubRanges ==
    {p \in (date_range[1]..date_range[2]) \X (date_range[1]..date_range[2]) :
        p[1] <= p[2] /\ p # date_range}

RevenueOf(dr) == KpiTotalRevenue(compute_monthly_sales(FilterByDate(df, dr)))

NoNegativePayment ==
    \A i \in DOMAIN df : IsNull(df[i].payment_value) \/ df[i].payment_value >= 0

C7_RevenueMonotoneUnderRestriction ==
    (stage = "rendered" /\ Len(date_range) = 2 /\ NoNegativePayment) =>
        \A p \in StrictSubRanges : RevenueOf(p) <= total_revenue

C7_Witness ==
    /\ stage = "rendered" /\ Len(date_range) = 2 /\ NoNegativePayment
    /\ \E p \in StrictSubRanges : 0 < RevenueOf(p) /\ RevenueOf(p) < total_revenue

\* C8: in the returned segment summary the customers column sums to the
\* number of distinct customers of the RFM table, every customer is counted
\* in exactly one summary row, and there is one row per label that occurs.
C8_SummaryCountsEveryCustomerOnce ==
    Returned =>
        /\ SumSeq(Column(segment_summary, "customers"))
             = Cardinality({rfm[i].customer_unique_id : i \in DOMAIN rfm})
        /\ \A i \in DOMAIN rfm :
              Cardinality({k \in DOMAIN segment_summary :
                              segment_summary[k].Segment = rfm[i].Segment}) = 1
        /\ \A k \in DOMAIN segment_summary :
              segment_summary[k].customers
                = Cardinality({rfm[i].customer_unique_id :
                                  i \in {j \in DOMAIN rfm : rfm[j].Segment = segment_summary[k].Segment}})
        /\ Len(segment_summary) = Cardinality({rfm[i].Segment : i \in DOMAIN rfm})

C8_Witness ==
    /\ Returned
    /\ Len(rfm) = 3
    /\ Len(segment_summary) = 2
    /\ \E k \in DOMAIN segment_summary : segment_summary[k].customers = 2

\* C9: in the returned RFM table every recency is non-negative and is the
\* whole number of days from the customer's last purchase to the reference
\* date, the latest qualifying purchase plus one day.
QualifyingTimestamps ==
    {df_filtered[i].order_purchase_timestamp :
        i \in {j \in DOMAIN df_filtered : HasNoNull(df_filtered[j])}}

WholeDaysBetween(from, to) ==
    CHOOSE k \in -(MaxDay + 2)..(MaxDay + 2) :
        from + k * TicksPerDay <= to /\ to < from + (k + 1) * TicksPerDay

C9_RecencyNonNegative ==
    Returned =>
        \A i \in DOMAIN rfm :
            /\ rfm[i].recency >= 0
            /\ rfm[i].last_purchase \in QualifyingTimestamps
            /\ rfm[i].recency
                 = WholeDaysBetween(rfm[i].last_purchase, Max(QualifyingTimestamps) + TicksPerDay)

C9_Witness ==
    /\ Returned
    /\ \E i, j \in DOMAIN rfm :
          /\ rfm[i].recency = 1
          /\ rfm[j].recency > 1
          /\ rfm[j].last_purchase % TicksPerDay # rfm[i].last_purchase % TicksPerDay

\* C10: in the returned RFM table the three scores are in 1..4; a smaller
\* recency never gets a smaller R_score (the most recent customer gets 4, the
\* least recent 1); a smaller frequency never gets a larger F_score and a
\* smaller monetary never gets a larger M_score.
C10_ScoresFollowTheMetric ==
    Returned =>
        /\ \A i \in DOMAIN rfm :
              /\ rfm[i].R_score \in 1..4 /\ rfm[i].F_score \in 1..4 /\ rfm[i].M_score \in 1..4
              /\ (\A j \in DOMAIN rfm : rfm[i].recency <= rfm[j].recency) => rfm[i].R_score = 4
              /\ (\A j \in DOMAIN rfm : rfm[i].recency >= rfm[j].recency) => rfm[i].R_score = 1
        /\ \A i, j \in DOMAIN rfm :
              /\ rfm[i].recency < rfm[j].recency => rfm[i].R_score >= rfm[j].R_score
              /\ rfm[i].frequency < rfm[j].frequency => rfm[i].F_score <= rfm[j].F_score
              /\ rfm[i].monetary < rfm[j].monetary => rfm[i].M_score <= rfm[j].M_score

C10_Witness ==
    /\ Returned
    /\ \E i, j \in DOMAIN rfm :
          /\ rfm[i].recency < rfm[j].recency /\ rfm[i].R_score > rfm[j].R_score
          /\ rfm[i].frequency < rfm[j].frequency /\ rfm[i].F_score < rfm[j].F_score
          /\ rfm[i].monetary < rfm[j].monetary /\ rfm[i].M_score < rfm[j].M_score

====
